---- MODULE Spec2Model ----
(***************************************************************************)
(* A model of samples/utils/value_utils.py: flatten_dict, value_match and  *)
(* value_contains, three pure recursive functions over Python values.      *)
(*                                                                         *)
(* A Python value is a record: t is the runtime type that the isinstance   *)
(* tests of the code look at, one more field is the payload.  A str is a   *)
(* sequence of one-character strings, a list a sequence of values, a dict  *)
(* the sequence of its <<key, value>> items in insertion order (keys       *)
(* unique).  A float NaN carries the identity of its object, because the   *)
(* == of lists and dicts compares items by identity before equality.       *)
(***************************************************************************)
EXTENDS Integers, Sequences, FiniteSets, TLC

VARIABLES op, value_a, value_b, parent_key, sep, result, pc

vars == <<op, value_a, value_b, parent_key, sep, result, pc>>

\* ------------------------------------------------------------------------
\* Bounds of the model.
\* ------------------------------------------------------------------------
\* Nodes (scalars and containers) of value_a and value_b together.
MaxNodes == 5
\* Nodes of the dict handed to flatten_dict.
MaxFlatNodes == 4
\* Characters of a top-level string argument.
MaxStrLen == 3

\* ------------------------------------------------------------------------
\* Python values.
\* ------------------------------------------------------------------------
PyInt(n) == [t |-> "int", n |-> n]
PyBool(x) == [t |-> "bool", b |-> x]
PyStr(s) == [t |-> "str", s |-> s]
PyNaN(id) == [t |-> "nan", id |-> id]
PyList(s) == [t |-> "list", elems |-> s]
PyDict(items) == [t |-> "dict", items |-> items]
PyNone == [t |-> "none"]

IsStr(x) == x.t = "str"
IsList(x) == x.t = "list"
IsDict(x) == x.t = "dict"
IsNum(x) == x.t \in {"int", "bool"}
IsNaN(x) == x.t = "nan"
IsScalar(x) == ~IsList(x) /\ ~IsDict(x)

\* bool is a subclass of int: True is 1 and False is 0 under ==.
NumVal(x) == IF x.t = "bool" THEN (IF x.b THEN 1 ELSE 0) ELSE x.n

Min(m, n) == IF m <= n THEN m ELSE n

\* dict operations on the item sequence.
DictKeys(items) == {items[i][1] : i \in 1..Len(items)}
HasKey(items, key) == \E i \in 1..Len(items) : items[i][1] = key
GetItem(items, key) == items[CHOOSE i \in 1..Len(items) : items[i][1] = key][2]

\* ------------------------------------------------------------------------
\* str methods.
\* ------------------------------------------------------------------------
LowerChar(c) == IF c = "A" THEN "a" ELSE IF c = "B" THEN "b" ELSE c

\* str.lower()
Lower(s) == [i \in 1..Len(s) |-> LowerChar(s[i])]

\* str.replace(old, new) for a one-character old.
RECURSIVE Replace(_, _, _)

\* Replace as str.replace(old, new, 1) would be: the first occurrence only.
Replace_FirstOnly(s, old, new) ==
    IF \E i \in 1..Len(s) : s[i] = old
    THEN LET i == CHOOSE j \in 1..Len(s) :
                      s[j] = old /\ \A h \in 1..(j - 1) : s[h] # old
         IN SubSeq(s, 1, i - 1) \o new \o SubSeq(s, i + 1, Len(s))
    ELSE s

Replace(s, old, new) ==
    IF s = <<>> THEN <<>>
    ELSE (IF Head(s) = old THEN new ELSE <<Head(s)>>) \o Replace(Tail(s), old, new)

\* x in y for two str: a search for x at every offset of y.
StrIn(x, y) ==
    \E i \in 0..(Len(y) - Len(x)) : SubSeq(y, i + 1, i + Len(x)) = x

\* str(i) for an index i >= 0.
DigitChar == <<"0", "1", "2", "3", "4", "5", "6", "7", "8", "9">>
RECURSIVE IntStr(_)
IntStr(i) ==
    IF i < 10 THEN <<DigitChar[i + 1]>>
    ELSE IntStr(i \div 10) \o <<DigitChar[(i % 10) + 1]>>

\* ------------------------------------------------------------------------
\* Native equality, value_a == value_b.
\* ------------------------------------------------------------------------
RECURSIVE PyEq(_, _)

\* The comparison of two items of a container: identity, then ==.  Only a
\* NaN is identical to, yet not equal to, itself.
ItemEq(x, y) ==
    \/ IsNaN(x) /\ IsNaN(y) /\ x.id = y.id
    \/ PyEq(x, y)

PyEq(x, y) ==
    IF IsNum(x) /\ IsNum(y) THEN NumVal(x) = NumVal(y)
    ELSE IF IsStr(x) /\ IsStr(y) THEN x.s = y.s
    ELSE IF IsList(x) /\ IsList(y) THEN
        /\ Len(x.elems) = Len(y.elems)
        /\ \A i \in 1..Len(x.elems) : ItemEq(x.elems[i], y.elems[i])
    ELSE IF IsDict(x) /\ IsDict(y) THEN
        /\ Len(x.items) = Len(y.items)
        /\ \A key \in DictKeys(x.items) :
              /\ HasKey(y.items, key)
              /\ ItemEq(GetItem(x.items, key), GetItem(y.items, key))
    ELSE x.t = "none" /\ y.t = "none"

\* ------------------------------------------------------------------------
\* value_match
\* ------------------------------------------------------------------------
RECURSIVE value_match(_, _)

\* value_match returning True as soon as the checks of two lists or of two
\* dicts have passed, instead of going on to value_a == value_b.
value_match_TrueAfterChecks(a, b) ==
    IF IsStr(a) /\ IsStr(b) THEN Lower(a.s) = Lower(b.s)
    ELSE IF IsList(a) /\ IsList(b) THEN
        \A i \in 1..Min(Len(a.elems), Len(b.elems)) :
            value_match(a.elems[i], b.elems[i])
    ELSE IF IsDict(a) /\ IsDict(b) THEN
        \A key \in DictKeys(a.items) :
            /\ HasKey(b.items, key)
            /\ value_match(GetItem(a.items, key), GetItem(b.items, key))
    ELSE PyEq(a, b)

value_match(a, b) ==
    IF IsStr(a) /\ IsStr(b) THEN Lower(a.s) = Lower(b.s)
    ELSE IF /\ IsList(a) /\ IsList(b)
            /\ \E i \in 1..Min(Len(a.elems), Len(b.elems)) :
                  ~value_match(a.elems[i], b.elems[i])
         THEN FALSE
    ELSE IF /\ IsDict(a) /\ IsDict(b)
            /\ \E key \in DictKeys(a.items) :
                  \/ ~HasKey(b.items, key)
                  \/ ~value_match(GetItem(a.items, key), GetItem(b.items, key))
         THEN FALSE
    ELSE PyEq(a, b)

\* ------------------------------------------------------------------------
\* value_contains
\* ------------------------------------------------------------------------
\* StrContains with the spaces of value_b left in place.
StrContains_NeedleOnly(x, y) == StrIn(Lower(Replace(x, " ", <<>>)), Lower(y))

\* value_a.replace(" ", "").lower() in value_b.replace(" ", "").lower()
StrContains(x, y) ==
    StrIn(Lower(Replace(x, " ", <<>>)), Lower(Replace(y, " ", <<>>)))

RECURSIVE value_contains(_, _)
value_contains(a, b) ==
    IF IsStr(a) /\ IsStr(b) THEN StrContains(a.s, b.s)
    ELSE IF /\ IsList(a) /\ IsList(b)
            /\ \E i \in 1..Len(a.elems) :
                  ~\E j \in 1..Len(b.elems) :
                      value_contains(a.elems[i], b.elems[j])
         THEN FALSE
    ELSE IF /\ IsDict(a) /\ IsDict(b)
            /\ \E key \in DictKeys(a.items) :
                  \/ ~HasKey(b.items, key)
                  \/ ~value_contains(GetItem(a.items, key), GetItem(b.items, key))
         THEN FALSE
    ELSE value_match(a, b)

\* ------------------------------------------------------------------------
\* flatten_dict
\* ------------------------------------------------------------------------
\* dict(items): a later item with a key already present replaces the value
\* and keeps the position of the first.
RECURSIVE DictOf(_)

\* DictOf keeping the first value of a key instead of the last.
DictOf_FirstWins(items) ==
    IF items = <<>> THEN <<>>
    ELSE LET d == DictOf(SubSeq(items, 1, Len(items) - 1))
             kv == items[Len(items)]
         IN IF HasKey(d, kv[1]) THEN d ELSE Append(d, kv)

DictOf(items) ==
    IF items = <<>> THEN <<>>
    ELSE LET d == DictOf(SubSeq(items, 1, Len(items) - 1))
             kv == items[Len(items)]
         IN IF HasKey(d, kv[1])
            THEN [i \in 1..Len(d) |-> IF d[i][1] = kv[1] THEN kv ELSE d[i]]
            ELSE Append(d, kv)

\* new_key = f"{parent_key}{sep}{k}" if parent_key else k
NewKey(pk, s, k) == IF pk # <<>> THEN pk \o s \o k ELSE k

\* f"{new_key}_{i}"
IndexKey(new_key, i) == new_key \o <<"_">> \o IntStr(i)

RECURSIVE flatten_dict(_, _, _), ListItems(_, _, _, _), DataItems(_, _, _, _)

\* ListItems appending each element under its key as it is, a dict or a
\* list included, instead of flattening it.
ListItems_NoRecursion(v, i, new_key, s) ==
    IF i >= Len(v) THEN <<>>
    ELSE << <<IndexKey(new_key, i), v[i + 1]>> >>
         \o ListItems(v, i + 1, new_key, s)

\* The items that the elements i, i+1, ... of a list contribute (i from 0).
ListItems(v, i, new_key, s) ==
    IF i >= Len(v) THEN <<>>
    ELSE flatten_dict(<< <<IndexKey(new_key, i), v[i + 1]>> >>, <<>>, s)
         \o ListItems(v, i + 1, new_key, s)

\* The list items after the loop has run over the entries n, n+1, ... of data.
DataItems(data, n, pk, s) ==
    IF n > Len(data) THEN <<>>
    ELSE LET k == data[n][1]
             v == data[n][2]
             new_key == NewKey(pk, s, k)
         IN (IF IsDict(v) THEN flatten_dict(v.items, new_key, s)
             ELSE IF IsList(v) THEN ListItems(v.elems, 0, new_key, s)
             ELSE << <<new_key, v>> >>)
            \o DataItems(data, n + 1, pk, s)

flatten_dict(data, pk, s) == DictOf(DataItems(data, 1, pk, s))

\* ------------------------------------------------------------------------
\* The arguments the functions are called with.
\* ------------------------------------------------------------------------
RECURSIVE ValuesOfSize(_, _, _), ListsOfSize(_, _, _), ItemsOfSize(_, _, _)

\* The values of exactly n nodes over the scalars Sc and the dict keys Ks.
ValuesOfSize(Sc, Ks, n) ==
    (IF n = 1 THEN Sc ELSE {})
    \cup {PyList(s) : s \in ListsOfSize(Sc, Ks, n - 1)}
    \cup {PyDict(d) : d \in ItemsOfSize(Sc, Ks, n - 1)}

ListsOfSize(Sc, Ks, m) ==
    IF m = 0 THEN {<<>>}
    ELSE UNION {{<<x>> \o r : x \in ValuesOfSize(Sc, Ks, j),
                              r \in ListsOfSize(Sc, Ks, m - j)} : j \in 1..m}

ItemsOfSize(Sc, Ks, m) ==
    IF m = 0 THEN {<<>>}
    ELSE UNION {UNION {{<< <<k, x>> >> \o r : x \in ValuesOfSize(Sc, Ks, j),
                                              r \in ItemsOfSize(Sc, Ks \ {k}, m - j)}
                       : k \in Ks} : j \in 1..m}

ValuesUpTo(Sc, Ks, n) == UNION {ValuesOfSize(Sc, Ks, j) : j \in 1..n}

\* value_match and value_contains: any two values.
CompareScalars ==
    {PyInt(1), PyBool(TRUE), PyStr(<<"a">>), PyStr(<<"A">>), PyNaN(1)}
CompareKeys == {<<"k">>, <<"K">>}
ComparePairs ==
    UNION {ValuesOfSize(CompareScalars, CompareKeys, n)
             \X ValuesUpTo(CompareScalars, CompareKeys, MaxNodes - n)
           : n \in 1..(MaxNodes - 1)}

\* ... and any two strings.
RECURSIVE StringsOfLen(_, _)
StringsOfLen(Cs, n) ==
    IF n = 0 THEN {<<>>}
    ELSE {<<c>> \o s : c \in Cs, s \in StringsOfLen(Cs, n - 1)}
StrChars == {"a", "A", " ", "\t"}
Strings == UNION {StringsOfLen(StrChars, n) : n \in 0..MaxStrLen}

\* flatten_dict: a dict of str keys, a parent key and a separator.
FlatScalars == {PyInt(1), PyInt(2)}
FlatKeys == {<<"a">>, <<"a", "_", "0">>, <<"0">>}
FlatData ==
    {x \in ValuesUpTo(FlatScalars, FlatKeys, MaxFlatNodes) : IsDict(x)}
ParentKeys == {<<>>, <<"a">>}
Separators == {<<"_">>, <<".">>}

\* ------------------------------------------------------------------------
\* The calls.
\* ------------------------------------------------------------------------
Idle ==
    /\ op = "none"
    /\ parent_key = <<>>
    /\ sep = <<"_">>
    /\ result = PyNone
    /\ pc = "start"

InitCompare ==
    /\ \/ \E p \in ComparePairs : value_a = p[1] /\ value_b = p[2]
       \/ /\ value_a \in {PyStr(s) : s \in Strings}
          /\ value_b \in {PyStr(s) : s \in Strings}
    /\ Idle

InitFlatten ==
    /\ value_a \in FlatData
    /\ value_b = PyNone
    /\ Idle

CallValueMatch ==
    /\ pc = "start"
    /\ op' = "value_match"
    /\ result' = value_match(value_a, value_b)
    /\ pc' = "done"
    /\ UNCHANGED <<value_a, value_b, parent_key, sep>>

CallValueContains ==
    /\ pc = "start"
    /\ op' = "value_contains"
    /\ result' = value_contains(value_a, value_b)
    /\ pc' = "done"
    /\ UNCHANGED <<value_a, value_b, parent_key, sep>>

CallFlattenDict ==
    /\ pc = "start"
    /\ IsDict(value_a)
    /\ \E pk \in ParentKeys, s \in Separators :
          /\ parent_key' = pk
          /\ sep' = s
          /\ result' = flatten_dict(value_a.items, pk, s)
    /\ op' = "flatten_dict"
    /\ pc' = "done"
    /\ UNCHANGED <<value_a, value_b>>

NextCompare == CallValueMatch \/ CallValueContains
NextFlatten == CallFlattenDict

SpecCompare == InitCompare /\ [][NextCompare]_vars
SpecFlatten == InitFlatten /\ [][NextFlatten]_vars

Init == InitCompare \/ InitFlatten
Next == CallValueMatch \/ CallValueContains \/ CallFlattenDict
Spec == Init /\ [][Next]_vars

\* ------------------------------------------------------------------------
\* Properties of value_match.
\* ------------------------------------------------------------------------
MatchDone == pc = "done" /\ op = "value_match"
ContainsDone == pc = "done" /\ op = "value_contains"
FlattenDone == pc = "done" /\ op = "flatten_dict"

\* C1: for two lists, value_match is true exactly when the elements paired
\* up to the length of the shorter list all match; the trailing elements of
\* the longer list are ignored.
C1_ShorterSequenceGoverns ==
    (MatchDone /\ IsList(value_a) /\ IsList(value_b)) =>
        (result = \A i \in 1..Min(Len(value_a.elems), Len(value_b.elems)) :
                      value_match(value_a.elems[i], value_b.elems[i]))

\* C2: for two dicts, value_match is true exactly when every key of value_a
\* is a key of value_b and the two values under it match; the other keys of
\* value_b are ignored.
C2_PatternKeysGovern ==
    (MatchDone /\ IsDict(value_a) /\ IsDict(value_b)) =>
        (result = \A key \in DictKeys(value_a.items) :
                      /\ HasKey(value_b.items, key)
                      /\ value_match(GetItem(value_a.items, key),
                                     GetItem(value_b.items, key)))

\* No list or dict of x holds a NaN.
RECURSIVE NoNaNInside(_)
NoNaNInside(x) ==
    IF IsList(x) THEN
        \A i \in 1..Len(x.elems) : ~IsNaN(x.elems[i]) /\ NoNaNInside(x.elems[i])
    ELSE IF IsDict(x) THEN
        \A i \in 1..Len(x.items) :
            ~IsNaN(x.items[i][2]) /\ NoNaNInside(x.items[i][2])
    ELSE TRUE

C3_EveryElementFoundSomewhere ==
    (ContainsDone /\ IsList(value_a) /\ IsList(value_b)) =>
        (result = \A i \in 1..Len(value_a.elems) :
                      \E j \in 1..Len(value_b.elems) :
                          value_contains(value_a.elems[i], value_b.elems[j]))

\* C4: for two dicts, value_contains is true when every key of value_a is a
\* key of value_b whose value contains that of value_a, and false when a key
\* is missing or a nested containment fails.
C4_EveryKeyContained ==
    (ContainsDone /\ IsDict(value_a) /\ IsDict(value_b)) =>
        (result = \A key \in DictKeys(value_a.items) :
                      /\ HasKey(value_b.items, key)
                      /\ value_contains(GetItem(value_a.items, key),
                                        GetItem(value_b.items, key)))

\* x occurs in y at some offset, letters compared without case.
OccursIn(x, y) ==
    \E k \in 0..(Len(y) - Len(x)) :
        \A j \in 1..Len(x) : LowerChar(x[j]) = LowerChar(y[k + j])

IsWhitespace(c) == c \in {" ", "\t", "\n"}
WithoutWhitespace(s) == SelectSeq(s, LAMBDA c : ~IsWhitespace(c))
WithoutSpaces(s) == SelectSeq(s, LAMBDA c : c # " ")

SameScalar(x, y) ==
    /\ x.t = y.t
    /\ \/ IsStr(x) /\ x.s = y.s
       \/ x.t = "int" /\ x.n = y.n
       \/ x.t = "bool" /\ x.b = y.b
       \/ IsNaN(x) /\ x.id = y.id
       \/ x.t = "none"

\* C9 as stated: every string and every other scalar contains itself, and
\* for two scalars that are no strings value_contains is value_match, which
\* is ==.
C9_ScalarsContainThemselves ==
    (ContainsDone /\ IsScalar(value_a) /\ IsScalar(value_b)) =>
        /\ SameScalar(value_a, value_b) => result = TRUE
        /\ (~IsStr(value_a) /\ ~IsStr(value_b)) =>
              /\ result = value_match(value_a, value_b)
              /\ result = PyEq(value_a, value_b)

\* C9 as amended: every string and every other scalar except NaN contains
\* itself, and for two scalars that are no strings value_contains is
\* value_match, which is ==.
C9_ScalarsButNaNContainThemselves ==
    (ContainsDone /\ IsScalar(value_a) /\ IsScalar(value_b)) =>
        /\ (SameScalar(value_a, value_b) /\ ~IsNaN(value_a)) => result = TRUE
        /\ (~IsStr(value_a) /\ ~IsStr(value_b)) =>
              /\ result = value_match(value_a, value_b)
              /\ result = PyEq(value_a, value_b)

\* C9: a string with a space and a capital is found to contain itself.
C9_Witness ==
    /\ ContainsDone
    /\ IsStr(value_a) /\ SameScalar(value_a, value_b)
    /\ \E i \in 1..Len(value_a.s) : value_a.s[i] = " "
    /\ \E i \in 1..Len(value_a.s) : value_a.s[i] = "A"
    /\ result = TRUE

\* ------------------------------------------------------------------------
\* Properties of flatten_dict.
\* ------------------------------------------------------------------------
IsPrefix(x, y) == Len(x) <= Len(y) /\ SubSeq(y, 1, Len(x)) = x

\* The scalars at the leaves of x.
RECURSIVE LeafCount(_)
LeafCount(x) ==
    IF IsList(x) THEN
        IF x.elems = <<>> THEN 0
        ELSE LeafCount(x.elems[1]) + LeafCount(PyList(Tail(x.elems)))
    ELSE IF IsDict(x) THEN
        IF x.items = <<>> THEN 0
        ELSE LeafCount(x.items[1][2]) + LeafCount(PyDict(Tail(x.items)))
    ELSE 1

\* C6: with any separator, element i of a list under the composite key K
\* yields the key K + sep + str(i) when it is a scalar, and keys that start
\* with K + sep + str(i) + sep when it is a dict or a list.
C6_IndexJoinedBySeparator ==
    FlattenDone =>
        \A n \in 1..Len(value_a.items) :
            LET v == value_a.items[n][2]
                K == NewKey(parent_key, sep, value_a.items[n][1])
            IN IsList(v) =>
                  \A i \in 1..Len(v.elems) :
                      LET root == K \o sep \o IntStr(i - 1)
                      IN IF IsScalar(v.elems[i])
                         THEN HasKey(result, root)
                         ELSE LeafCount(v.elems[i]) > 0 =>
                                 \E key \in DictKeys(result) :
                                     IsPrefix(root \o sep, key)

\* C7: the result of flatten_dict is a dict whose values are all scalars;
\* it has at most one key for each scalar of the input, so that an empty
\* dict gives an empty dict and an empty list gives no key.
C7_ResultIsFlat ==
    FlattenDone =>
        /\ \A i \in 1..Len(result) : IsScalar(result[i][2])
        /\ \A i, j \in 1..Len(result) : result[i][1] = result[j][1] => i = j
        /\ Len(result) <= LeafCount(value_a)
        /\ value_a.items = <<>> => result = <<>>

\* C7: a dict with a dict inside a list, and with an empty list, has been
\* flattened to at least one key.
C7_Witness ==
    /\ FlattenDone
    /\ \E n \in 1..Len(value_a.items) :
          /\ IsList(value_a.items[n][2])
          /\ value_a.items[n][2].elems # <<>>
          /\ IsDict(value_a.items[n][2].elems[1])
    /\ Len(result) >= 1

\* The <<key, scalar>> pairs of data in the order of the depth-first
\* traversal, one for each path: what flatten_dict would return if no two
\* paths gave the same key.
RECURSIVE Paths(_, _, _)
Paths(x, key, s) ==
    IF IsDict(x) THEN
        IF x.items = <<>> THEN <<>>
        ELSE Paths(x.items[1][2], NewKey(key, s, x.items[1][1]), s)
             \o Paths(PyDict(Tail(x.items)), key, s)
    ELSE IF IsList(x) THEN
        LET n == Len(x.elems)
        IN IF n = 0 THEN <<>>
           ELSE Paths(PyList(SubSeq(x.elems, 1, n - 1)), key, s)
                \o Paths(x.elems[n], IndexKey(key, n - 1), s)
    ELSE << <<key, x>> >>

\* The value of the last of the pairs with the key.
LastWritten(pairs, key) ==
    pairs[CHOOSE i \in 1..Len(pairs) :
              /\ pairs[i][1] = key
              /\ \A j \in (i + 1)..Len(pairs) : pairs[j][1] # key][2]

\* C8: when two paths of the input give the same key, flatten_dict returns
\* a result all the same, and in it every key has the value of the last
\* path of the depth-first, insertion-order traversal that gives the key.
C8_LastWriteWins ==
    FlattenDone =>
        LET pairs == Paths(value_a, parent_key, sep)
        IN /\ DictKeys(result) = DictKeys(pairs)
           /\ \A key \in DictKeys(pairs) :
                 GetItem(result, key) = LastWritten(pairs, key)

\* C8: two paths have given the same key with different values.
C8_Witness ==
    /\ FlattenDone
    /\ LET pairs == Paths(value_a, parent_key, sep)
       IN \E i, j \in 1..Len(pairs) :
             /\ i < j
             /\ pairs[i][1] = pairs[j][1]
             /\ pairs[i][2] # pairs[j][2]

====
